---- MODULE Spec2Model ----
(***************************************************************************)
(* A model of the request dispatch path of summer's app (src/app.go):      *)
(* the routing priority of ServeHTTP, the admission gate built on the      *)
(* pre-filled channel cc, the readinessFailed counter with the liveness    *)
(* cascade rule, and the Context lifecycle of a registered route.          *)
(*                                                                         *)
(* Every request is served by its own goroutine.  A goroutine is a task    *)
(* of the model; its position in ServeHTTP is task[r].pc.  Steps of        *)
(* different tasks interleave at the points where the code touches shared  *)
(* state (the channel cc, the atomic readinessFailed).                     *)
(***************************************************************************)
EXTENDS Integers, Sequences, FiniteSets, TLC

\* ---------------------------------------------------------------- bounds
\* number of request goroutines that can be in flight at the same time
MaxReq == 2
\* largest value of the concurrency option
MaxConcurrency == 1
\* largest value of the readinessCascade option
MaxCascade == 2
\* saturation point of the history counter of consecutive passing evaluations
MaxPass == 2

\* the failure counter is explored up to one above the configured threshold
MaxFailed(cascade) == cascade + 1

Tasks == 1 .. MaxReq

\* ------------------------------------------------------- strings and paths
DebugPrefix == "/debug/"

\* strings.HasPrefix
HasPrefix(s, prefix) ==
    /\ Len(s) >= Len(prefix)
    /\ SubSeq(s, 1, Len(prefix)) = prefix

DefaultPaths ==
    [readinessPath |-> "/readiness", livenessPath |-> "/liveness", metricsPath |-> "/metrics"]

\* the reserved-path configurations explored
PathConfigs == { DefaultPaths }

\* patterns registered with HandleFunc before traffic starts
Registered == { "/hello" }

\* request paths outside the reserved ones
OtherPaths == { "/hello", "/missing", "/debug/pprof/" }

\* names of the health checks that may be registered, in registration order
CheckSets == { <<>>, <<"db">>, <<"db", "mq">> }

\* an error value is <<>> (nil) or <<message>>
NilErr == <<>>
ErrValues == { NilErr, <<"timeout">> }

StatusOK == 200
StatusInternalServerError == 500

\* what a ServeMux answers for a path it has no pattern for
NotFoundResponse == [status |-> 404, body |-> "404 page not found"]

\* no response was written (the goroutine is unwinding with a panic)
NoResponse == [status |-> 0, body |-> ""]

VARIABLES
    opts,             \* options: concurrency, readinessCascade and the three paths
    checks,           \* names of the registered health checks
    cc,               \* the gate channel: isNil, or len permits buffered of cap
    readinessFailed,  \* the atomic failure counter
    task,             \* per goroutine: position and locals of ServeHTTP
    failStreak,       \* history: failing counter updates since the last passing one
    passStreak        \* history: passing counter updates since the last failing one

vars == <<opts, checks, cc, readinessFailed, task, failStreak, passStreak>>

IdleTask ==
    [ pc        |-> "idle",
      path      |-> "",
      cancelled |-> FALSE,     \* req.Context() is done
      reports   |-> <<>>,      \* what Check reported to the callback
      sb        |-> "",        \* strings.Builder of the readiness report
      failed    |-> FALSE,     \* local failed of the readiness branch
      panicking |-> FALSE,     \* the goroutine unwinds with a panic
      resp      |-> NoResponse,
      holds     |-> 0,         \* permits received from cc and not yet sent back
      acquired  |-> 0,         \* history: receives from cc by this request
      released  |-> 0,         \* history: sends to cc by this request
      performed |-> 0,         \* history: calls of Perform on this request's Context
      created   |-> 0,         \* history: Contexts the factory produced
      checked   |-> 0,         \* history: calls of Registry.Check by this request
      seen      |-> 0 ]        \* history: the counter when Check ran

\* ------------------------------------------------------------ construction
\* NewChan that makes the channel whatever the concurrency
NewChanAlways(concurrency) ==
    [isNil |-> FALSE, len |-> concurrency, cap |-> concurrency]

\* New: options applied, the channel filled with concurrency permits
NewChan(concurrency) ==
    IF concurrency > 0
    THEN [isNil |-> FALSE, len |-> concurrency, cap |-> concurrency]
    ELSE [isNil |-> TRUE, len |-> 0, cap |-> 0]

InitWith(paths, concs, cascades, checkSets) ==
    /\ \E p \in paths, k \in concs, c \in cascades :
          opts = [ concurrency      |-> k,
                   readinessCascade |-> c,
                   readinessPath    |-> p.readinessPath,
                   livenessPath     |-> p.livenessPath,
                   metricsPath      |-> p.metricsPath ]
    /\ checks \in checkSets
    /\ cc = NewChan(opts.concurrency)
    /\ readinessFailed = 0
    /\ task = [r \in Tasks |-> IdleTask]
    /\ failStreak = 0
    /\ passStreak = 0

Init == InitWith(PathConfigs, 0 .. MaxConcurrency, 0 .. MaxCascade, CheckSets)

\* ---------------------------------------------------------------- routing
\* Route with the gate placed before the metrics and profiling branches
RouteGateFirst(p) ==
    IF p = opts.readinessPath THEN "readiness"
    ELSE IF p = opts.livenessPath THEN "liveness"
    ELSE IF ~ cc.isNil THEN "gate"
    ELSE IF p = opts.metricsPath THEN "metrics"
    ELSE IF HasPrefix(p, DebugPrefix) THEN "pprof"
    ELSE "main"

\* Route with the diagnostic prefix tested before the reserved paths
RoutePprofFirst(p) ==
    IF HasPrefix(p, DebugPrefix) THEN "pprof"
    ELSE IF p = opts.readinessPath THEN "readiness"
    ELSE IF p = opts.livenessPath THEN "liveness"
    ELSE IF p = opts.metricsPath THEN "metrics"
    ELSE IF ~ cc.isNil THEN "gate"
    ELSE "main"

\* Route with the liveness path tested before the readiness path
RouteLivenessFirst(p) ==
    IF p = opts.livenessPath THEN "liveness"
    ELSE IF p = opts.readinessPath THEN "readiness"
    ELSE IF p = opts.metricsPath THEN "metrics"
    ELSE IF HasPrefix(p, DebugPrefix) THEN "pprof"
    ELSE IF ~ cc.isNil THEN "gate"
    ELSE "main"

\* the destination ServeHTTP picks for a path
Route(p) ==
    IF p = opts.readinessPath THEN "readiness"
    ELSE IF p = opts.livenessPath THEN "liveness"
    ELSE IF p = opts.metricsPath THEN "metrics"
    ELSE IF HasPrefix(p, DebugPrefix) THEN "pprof"
    ELSE IF ~ cc.isNil THEN "gate"
    ELSE "main"

RequestPaths ==
    { opts.readinessPath, opts.livenessPath, opts.metricsPath } \cup OtherPaths

Set(r, t) == task' = [task EXCEPT ![r] = t]

\* ServeHTTP returns (or unwinds): the server cancels the request's context
Return(t) == [t EXCEPT !.pc = "done", !.cancelled = TRUE]

\* a request arrives on a free goroutine and ServeHTTP matches its path
Request(r, p) ==
    /\ task[r].pc \in { "idle", "done" }
    /\ Set(r, [IdleTask EXCEPT !.pc = Route(p), !.path = p])
    /\ UNCHANGED <<opts, checks, cc, readinessFailed, failStreak, passStreak>>

\* the client goes away while its request waits at the gate, the one place
\* where ServeHTTP blocks on something other than the work of the request
Cancel(r) ==
    /\ task[r].pc = "gate"
    /\ ~ task[r].cancelled
    /\ Set(r, [task[r] EXCEPT !.cancelled = TRUE])
    /\ UNCHANGED <<opts, checks, cc, readinessFailed, failStreak, passStreak>>

\* ---------------------------------------------------------- readiness
\* Report that writes the newline before every line, the first included
ReportAlwaysSep(acc, name, err) ==
    IF err = NilErr
    THEN [sb |-> acc.sb \o "\n" \o name \o ": OK", failed |-> acc.failed]
    ELSE [sb |-> acc.sb \o "\n" \o name \o ": " \o err[1], failed |-> TRUE]

\* Report with failed assigned from the last check alone
ReportLast(acc, name, err) ==
    LET sep == IF Len(acc.sb) > 0 THEN "\n" ELSE ""
    IN  IF err = NilErr
        THEN [sb |-> acc.sb \o sep \o name \o ": OK", failed |-> FALSE]
        ELSE [sb |-> acc.sb \o sep \o name \o ": " \o err[1], failed |-> TRUE]

\* the callback ServeHTTP hands to Check: one call appends one report line
Report(acc, name, err) ==
    LET sep == IF Len(acc.sb) > 0 THEN "\n" ELSE ""
    IN  IF err = NilErr
        THEN [sb |-> acc.sb \o sep \o name \o ": OK", failed |-> acc.failed]
        ELSE [sb |-> acc.sb \o sep \o name \o ": " \o err[1], failed |-> TRUE]

\* Registry.Check: the callback is called once per registered check, in order
RECURSIVE Check(_, _, _)
Check(names, errs, acc) ==
    IF names = <<>>
    THEN acc
    ELSE Check(Tail(names), Tail(errs), Report(acc, Head(names), Head(errs)))

\* the report body: the literal OK when the builder stayed empty
ReportBody(sb) == IF Len(sb) = 0 THEN "OK" ELSE sb

\* the status of a readiness response
ReadinessStatus(failed) ==
    IF failed THEN StatusInternalServerError ELSE StatusOK

\* NextReadinessFailed with a store of 1 in place of the add
NextReadinessFailedStore(failed, cur) ==
    IF failed THEN 1 ELSE 0

\* NextReadinessFailed with a decrement in place of the reset
NextReadinessFailedDecay(failed, cur) ==
    IF failed THEN cur + 1 ELSE IF cur > 0 THEN cur - 1 ELSE 0

\* NextReadinessFailed that keeps the counter on an all-pass evaluation
NextReadinessFailedKeep(failed, cur) ==
    IF failed THEN cur + 1 ELSE cur

\* the counter after a readiness evaluation: atomic add of 1, or atomic store of 0
NextReadinessFailed(failed, cur) ==
    IF failed THEN cur + 1 ELSE 0

\* failing evaluations whose increment is still to come
PendingFailures ==
    Cardinality({ q \in Tasks : task[q].pc = "readiness_update" /\ task[q].failed })

\* the outcomes the registered checks may report: a failing outcome only while
\* the counter stays within the explored range
Outcomes ==
    { e \in [1 .. Len(checks) -> ErrValues] :
        (\E i \in 1 .. Len(checks) : e[i] # NilErr)
            => readinessFailed + PendingFailures < MaxFailed(opts.readinessCascade) }

\* the readiness branch up to the report: Check runs the registered checks
ReadinessCheck(r) ==
    /\ task[r].pc = "readiness"
    /\ \E errs \in Outcomes :
          LET acc == Check(checks, errs, [sb |-> "", failed |-> FALSE])
          IN  Set(r, [task[r] EXCEPT
                        !.pc = "readiness_update",
                        !.reports = [i \in 1 .. Len(checks) |->
                                        [name |-> checks[i], err |-> errs[i]]],
                        !.sb = ReportBody(acc.sb),
                        !.failed = acc.failed,
                        !.checked = @ + 1,
                        !.seen = readinessFailed])
    /\ UNCHANGED <<opts, checks, cc, readinessFailed, failStreak, passStreak>>

\* ReadinessRespond with the increment as a load when Check runs and a store
\* at the update
ReadinessRespondLossy(r) ==
    /\ task[r].pc = "readiness_update"
    /\ readinessFailed' = IF task[r].failed THEN task[r].seen + 1 ELSE 0
    /\ failStreak' = IF task[r].failed THEN failStreak + 1 ELSE 0
    /\ passStreak' = IF task[r].failed THEN 0
                     ELSE IF passStreak < MaxPass THEN passStreak + 1 ELSE passStreak
    /\ Set(r, Return([task[r] EXCEPT
                        !.resp = [status |-> ReadinessStatus(task[r].failed),
                                  body   |-> task[r].sb]]))
    /\ UNCHANGED <<opts, checks, cc>>

\* the readiness branch from the counter update to the response
ReadinessRespond(r) ==
    /\ task[r].pc = "readiness_update"
    /\ readinessFailed' = NextReadinessFailed(task[r].failed, readinessFailed)
    /\ failStreak' = IF task[r].failed THEN failStreak + 1 ELSE 0
    /\ passStreak' = IF task[r].failed THEN 0
                     ELSE IF passStreak < MaxPass THEN passStreak + 1 ELSE passStreak
    /\ Set(r, Return([task[r] EXCEPT
                        !.resp = [status |-> ReadinessStatus(task[r].failed),
                                  body   |-> task[r].sb]]))
    /\ UNCHANGED <<opts, checks, cc>>

\* ----------------------------------------------------------- liveness
\* LivenessResponse with >= in place of >
LivenessResponseAtLeast(cascade, loaded) ==
    IF cascade > 0 /\ loaded >= cascade
    THEN [status |-> StatusInternalServerError, body |-> "CASCADED"]
    ELSE [status |-> StatusOK, body |-> "OK"]

\* the response of the liveness branch for a loaded counter value
LivenessResponse(cascade, loaded) ==
    IF cascade > 0 /\ loaded > cascade
    THEN [status |-> StatusInternalServerError, body |-> "CASCADED"]
    ELSE [status |-> StatusOK, body |-> "OK"]

\* Liveness that clears the counter when it answers OK
LivenessReset(r) ==
    /\ task[r].pc = "liveness"
    /\ Set(r, Return([task[r] EXCEPT
                        !.resp = LivenessResponse(opts.readinessCascade, readinessFailed)]))
    /\ readinessFailed' =
          IF LivenessResponse(opts.readinessCascade, readinessFailed).status = StatusOK
          THEN 0 ELSE readinessFailed
    /\ UNCHANGED <<opts, checks, cc, failStreak, passStreak>>

\* the liveness branch: one atomic load of the counter, then the response
Liveness(r) ==
    /\ task[r].pc = "liveness"
    /\ Set(r, Return([task[r] EXCEPT
                        !.resp = LivenessResponse(opts.readinessCascade, readinessFailed)]))
    /\ UNCHANGED <<opts, checks, cc, readinessFailed, failStreak, passStreak>>

\* ------------------------------------------------- metrics and profiling
\* hProm serves the request
Metrics(r) ==
    /\ task[r].pc = "metrics"
    /\ Set(r, Return([task[r] EXCEPT !.resp = [status |-> StatusOK, body |-> "metrics"]]))
    /\ UNCHANGED <<opts, checks, cc, readinessFailed, failStreak, passStreak>>

\* hProf serves the request: its mux knows the /debug/pprof/ subtree
Pprof(r) ==
    /\ task[r].pc = "pprof"
    /\ Set(r, Return([task[r] EXCEPT
                        !.resp = IF HasPrefix(task[r].path, "/debug/pprof/")
                                 THEN [status |-> StatusOK, body |-> "pprof"]
                                 ELSE NotFoundResponse]))
    /\ UNCHANGED <<opts, checks, cc, readinessFailed, failStreak, passStreak>>

\* ------------------------------------------------------ admission gate
\* Acquire as a receive that does not wait for a permit
AcquireNoWait(r) ==
    /\ task[r].pc = "gate"
    /\ cc' = [cc EXCEPT !.len = IF @ > 0 THEN @ - 1 ELSE 0]
    /\ Set(r, [task[r] EXCEPT !.pc = "main", !.holds = @ + 1, !.acquired = @ + 1])
    /\ UNCHANGED <<opts, checks, readinessFailed, failStreak, passStreak>>

\* <-a.cc: receive one permit, blocking while the channel is empty
Acquire(r) ==
    /\ task[r].pc = "gate"
    /\ cc.len > 0
    /\ cc' = [cc EXCEPT !.len = @ - 1]
    /\ Set(r, [task[r] EXCEPT !.pc = "main", !.holds = @ + 1, !.acquired = @ + 1])
    /\ UNCHANGED <<opts, checks, readinessFailed, failStreak, passStreak>>

\* AfterMain with the send placed after hMain.ServeHTTP instead of deferred
AfterMainNoDefer(t) ==
    IF cc.isNil \/ t.panicking THEN Return(t) ELSE [t EXCEPT !.pc = "release"]

\* where ServeHTTP continues when hMain.ServeHTTP returned or unwound: the
\* deferred send runs when the gate exists, otherwise ServeHTTP is left
AfterMain(t) == IF cc.isNil THEN Return(t) ELSE [t EXCEPT !.pc = "release"]

\* Release that returns without sending the permit
ReleaseDrop(r) ==
    /\ task[r].pc = "release"
    /\ Set(r, Return([task[r] EXCEPT !.holds = @ - 1, !.released = @ + 1]))
    /\ UNCHANGED <<opts, checks, cc, readinessFailed, failStreak, passStreak>>

\* the deferred a.cc <- struct{}{}: send one permit, blocking while the
\* buffer is full
Release(r) ==
    /\ task[r].pc = "release"
    /\ cc.len < cc.cap
    /\ cc' = [cc EXCEPT !.len = @ + 1]
    /\ Set(r, Return([task[r] EXCEPT !.holds = @ - 1, !.released = @ + 1]))
    /\ UNCHANGED <<opts, checks, readinessFailed, failStreak, passStreak>>

\* ------------------------------------------- route table and Context
\* hMain.ServeHTTP: the mux finds the route; a registered route starts with
\* the context factory, which returns a Context or panics
Main(r) ==
    /\ task[r].pc = "main"
    /\ \/ /\ task[r].path \notin Registered
          /\ Set(r, AfterMain([task[r] EXCEPT !.resp = NotFoundResponse]))
       \/ /\ task[r].path \in Registered
          /\ \/ Set(r, [task[r] EXCEPT !.pc = "inject", !.created = @ + 1])
             \/ Set(r, AfterMain([task[r] EXCEPT !.panicking = TRUE]))
    /\ UNCHANGED <<opts, checks, cc, readinessFailed, failStreak, passStreak>>

\* Inject with Perform deferred only after a.Inject(c) returned
InjectNoDefer(r) ==
    /\ task[r].pc = "inject"
    /\ \/ Set(r, [task[r] EXCEPT !.pc = "handler"])
       \/ Set(r, AfterMain([task[r] EXCEPT !.panicking = TRUE]))
    /\ UNCHANGED <<opts, checks, cc, readinessFailed, failStreak, passStreak>>

\* a.Inject(c), with Perform deferred: returns, or panics and skips the handler
Inject(r) ==
    /\ task[r].pc = "inject"
    /\ \/ Set(r, [task[r] EXCEPT !.pc = "handler"])
       \/ Set(r, [task[r] EXCEPT !.pc = "perform", !.panicking = TRUE])
    /\ UNCHANGED <<opts, checks, cc, readinessFailed, failStreak, passStreak>>

\* Handler whose return leaves the closure with Perform still to run
HandlerNoPerform(r) ==
    /\ task[r].pc = "handler"
    /\ \/ Set(r, AfterMain([task[r] EXCEPT !.resp = [status |-> StatusOK, body |-> "handled"]]))
       \/ Set(r, [task[r] EXCEPT !.pc = "perform", !.panicking = TRUE])
    /\ UNCHANGED <<opts, checks, cc, readinessFailed, failStreak, passStreak>>

\* fn(c): the registered handler returns after writing its response, or panics
Handler(r) ==
    /\ task[r].pc = "handler"
    /\ \/ Set(r, [task[r] EXCEPT
                    !.pc = "perform",
                    !.resp = [status |-> StatusOK, body |-> "handled"]])
       \/ Set(r, [task[r] EXCEPT !.pc = "perform", !.panicking = TRUE])
    /\ UNCHANGED <<opts, checks, cc, readinessFailed, failStreak, passStreak>>

\* the deferred c.Perform(): returns, or panics
Perform(r) ==
    /\ task[r].pc = "perform"
    /\ \/ Set(r, AfterMain([task[r] EXCEPT !.performed = @ + 1]))
       \/ Set(r, AfterMain([task[r] EXCEPT !.performed = @ + 1, !.panicking = TRUE]))
    /\ UNCHANGED <<opts, checks, cc, readinessFailed, failStreak, passStreak>>

\* --------------------------------------------------------- specifications
\* the steps of the health endpoints
HealthStep(r) ==
    \/ ReadinessCheck(r)
    \/ ReadinessRespond(r)
    \/ Liveness(r)

\* the steps of the metrics and profiling endpoints
DelegateStep(r) ==
    \/ Metrics(r)
    \/ Pprof(r)

\* the steps of an application-route request
AppStep(r) ==
    \/ Acquire(r)
    \/ Main(r)
    \/ Inject(r)
    \/ Handler(r)
    \/ Perform(r)
    \/ Release(r)

\* the steps of request goroutine r inside ServeHTTP
Step(r) == HealthStep(r) \/ DelegateStep(r) \/ AppStep(r)

Next ==
    \E r \in Tasks :
        \/ \E p \in RequestPaths : Request(r, p)
        \/ Cancel(r)
        \/ Step(r)

\* every option, every check set, every kind of request
Spec == Init /\ [][Next]_vars

\* every kind of request against a gate of 1 .. MaxConcurrency permits, with
\* one health configuration
GateInit == InitWith(PathConfigs, 1 .. MaxConcurrency, { 1 }, { <<"db">> })
GateSpec == GateInit /\ [][Next]_vars

\* the health endpoints alone: clients request the readiness and the liveness
\* path only
HealthNext ==
    \E r \in Tasks :
        \/ \E p \in { opts.readinessPath, opts.livenessPath } : Request(r, p)
        \/ HealthStep(r)

HealthSpec == Init /\ [][HealthNext]_vars

\* the application routes alone, with goroutines that keep running: a
\* goroutine that can take a step eventually does, every call returns or
\* panics, and a receiver waiting on cc gets a permit that keeps coming back
AppNext ==
    \E r \in Tasks :
        \/ \E p \in { "/hello", "/missing" } : Request(r, p)
        \/ Cancel(r)
        \/ AppStep(r)

AppFairSpec ==
    /\ GateInit
    /\ [][AppNext]_vars
    /\ \A r \in Tasks :
          /\ WF_vars(Main(r) \/ Inject(r) \/ Handler(r) \/ Perform(r) \/ Release(r))
          /\ SF_vars(Acquire(r))

\* reserved paths that coincide with each other or carry the diagnostic prefix
SameHealthPaths ==
    [readinessPath |-> "/health", livenessPath |-> "/health", metricsPath |-> "/metrics"]
SameStatusPaths ==
    [readinessPath |-> "/readiness", livenessPath |-> "/status", metricsPath |-> "/status"]
SameAllPaths ==
    [readinessPath |-> "/debug/all", livenessPath |-> "/debug/all", metricsPath |-> "/debug/all"]
DebugPaths ==
    [readinessPath |-> "/debug/ready", livenessPath |-> "/debug/alive",
     metricsPath |-> "/debug/metrics"]

CollidingPaths == { DefaultPaths, SameHealthPaths, SameStatusPaths, SameAllPaths, DebugPaths }

\* every kind of request under every reserved-path configuration, with a gate
\* of one permit and no health check registered
PathInit == InitWith(CollidingPaths, { 1 }, { 1 }, { <<>> })
PathSpec == PathInit /\ [][Next]_vars

\* the application routes alone, with the gate disabled or of 1 ..
\* MaxConcurrency permits
AppInit == InitWith(PathConfigs, 0 .. MaxConcurrency, { 1 }, { <<"db">> })
AppSpec == AppInit /\ [][AppNext]_vars

\* every kind of request against a gate of one permit, with goroutines that
\* keep running: a goroutine that can take a step eventually does, every call
\* returns or panics, and a receiver waiting on cc gets a permit that keeps
\* coming back
FairInit == InitWith(PathConfigs, { 1 }, { 0 }, { <<>> })

FairNext ==
    \E r \in Tasks :
        \/ \E p \in { opts.readinessPath, opts.livenessPath, opts.metricsPath,
                       "/debug/pprof/", "/hello" } : Request(r, p)
        \/ Step(r)

FairSpec ==
    /\ FairInit
    /\ [][FairNext]_vars
    /\ \A r \in Tasks :
          /\ WF_vars(HealthStep(r) \/ DelegateStep(r))
          /\ WF_vars(Main(r) \/ Inject(r) \/ Handler(r) \/ Perform(r) \/ Release(r))
          /\ SF_vars(Acquire(r))

\* the health endpoints alone, with check sets of zero to three checks, one of
\* them with empty names
ReportCheckSets == { <<>>, <<"">>, <<"db", "mq">>, <<"a", "", "c">> }
ReportInit == InitWith(PathConfigs, { 1 }, { 1 }, ReportCheckSets)
ReportSpec == ReportInit /\ [][HealthNext]_vars

\* the health endpoints alone with one check and the largest cascade: readiness
\* evaluations that overlap
RaceInit == InitWith(PathConfigs, { 1 }, { MaxCascade }, { <<"db">> })
RaceSpec == RaceInit /\ [][HealthNext]_vars

\* the health endpoints alone, with the readiness and liveness paths distinct
\* or the same string
CollideInit ==
    InitWith({ DefaultPaths, SameHealthPaths }, { 1 }, 0 .. MaxCascade, { <<"db">> })
CollideSpec == CollideInit /\ [][HealthNext]_vars

\* ------------------------------------------------------------- properties
RECURSIVE SumHolds(_)
SumHolds(S) ==
    IF S = {} THEN 0
    ELSE LET r == CHOOSE x \in S : TRUE
         IN  task[r].holds + SumHolds(S \ { r })

InFlight == { r \in Tasks : task[r].pc \notin { "idle", "done" } }

\* requests between the receive from cc and the send to cc
Inside == { r \in Tasks : task[r].pc \in { "main", "inject", "handler", "perform", "release" } }

\* a path that is a reserved one or has the diagnostic prefix
IsReserved(p) ==
    \/ p \in { opts.readinessPath, opts.livenessPath, opts.metricsPath }
    \/ HasPrefix(p, DebugPrefix)

\* C1: with concurrency = K > 0, at most K application-route requests are
\* between the receive of a permit and its return, and while K are inside no
\* further request can take the receive step.
C1_GateCapacity ==
    opts.concurrency > 0 =>
        /\ Cardinality(Inside) <= opts.concurrency
        /\ Cardinality(Inside) = opts.concurrency => \A r \in Tasks : ~ ENABLED Acquire(r)

\* K requests are inside and one more waits at the gate
C1_Witness ==
    /\ opts.concurrency > 0
    /\ Cardinality(Inside) = opts.concurrency
    /\ \E r \in Tasks : task[r].pc = "gate"

\* C2: the permits buffered in cc plus the permits held by in-flight requests
\* are always the concurrency the app was built with.
C2_PermitConservation ==
    opts.concurrency > 0 => cc.len + SumHolds(InFlight) = opts.concurrency

\* a request whose handler panicked has returned and every permit is back
C2_Witness ==
    /\ opts.concurrency > 0
    /\ cc.len = opts.concurrency
    /\ \E r \in Tasks :
          task[r].pc = "done" /\ task[r].panicking /\ task[r].performed = 1 /\ task[r].released = 1

\* C3: a request sends back the permit it received exactly once on every way
\* out of the handler chain, and a request that holds a permit eventually
\* has sent it back.
C3_ReleasedExactlyOnce ==
    /\ [](\A r \in Tasks :
            /\ task[r].released <= task[r].acquired
            /\ task[r].acquired <= 1
            /\ task[r].holds = task[r].acquired - task[r].released
            /\ task[r].pc = "done" => task[r].released = task[r].acquired)
    /\ \A r \in Tasks : (task[r].holds > 0) ~> (task[r].pc = "done" /\ task[r].released = 1)

\* one request returned normally and one unwound with a panic in Perform;
\* each sent its permit back once
C3_Witness ==
    \E r, q \in Tasks :
        /\ task[r].pc = "done" /\ ~ task[r].panicking
        /\ task[r].resp.body = "handled" /\ task[r].released = 1
        /\ task[q].pc = "done" /\ task[q].panicking
        /\ task[q].resp.body = "handled" /\ task[q].released = 1

C5_CancelledWaitAborts ==
    \A r \in Tasks :
        (task[r].pc = "gate" /\ task[r].cancelled) => ENABLED AppStep(r)

\* the liveness step of goroutine r
LivenessStep(r) ==
    /\ task[r].path = opts.livenessPath
    /\ task[r].path # opts.readinessPath
    /\ task[r].pc \notin { "idle", "done" }
    /\ task'[r].pc = "done"

\* C6: a liveness request is answered 500 CASCADED exactly when
\* readinessCascade > 0 and the counter is above readinessCascade, and
\* 200 OK otherwise.
C6_LivenessRule ==
    [][\A r \in Tasks :
         LivenessStep(r) =>
            task'[r].resp =
                IF opts.readinessCascade > 0 /\ readinessFailed > opts.readinessCascade
                THEN [status |-> 500, body |-> "CASCADED"]
                ELSE [status |-> 200, body |-> "OK"]]_vars

\* a liveness request was answered CASCADED
C6_Witness ==
    \E r \in Tasks :
        /\ task[r].pc = "done"
        /\ task[r].path = opts.livenessPath
        /\ task[r].resp = [status |-> 500, body |-> "CASCADED"]
        /\ readinessFailed > opts.readinessCascade

\* a check of this evaluation reported a non-nil error
SomeCheckFailed(r) ==
    \E i \in DOMAIN task[r].reports : task[r].reports[i].err # NilErr

\* C7: a readiness response is 500 exactly when a check reported a non-nil
\* error in that evaluation, and 200 otherwise.
C7_ReadinessStatus ==
    \A r \in Tasks :
        (task[r].pc = "done" /\ task[r].path = opts.readinessPath) =>
            /\ task[r].checked = 1
            /\ Len(task[r].reports) = Len(checks)
            /\ task[r].resp.status = IF SomeCheckFailed(r) THEN 500 ELSE 200

\* two checks, the first failed and the second passed: 500
C7_Witness ==
    \E r \in Tasks :
        /\ task[r].pc = "done"
        /\ task[r].path = opts.readinessPath
        /\ Len(task[r].reports) = 2
        /\ task[r].reports[1].err # NilErr
        /\ task[r].reports[2].err = NilErr
        /\ task[r].resp.status = 500

\* C8 as stated: after M failing evaluations in a row the counter is M, and
\* a liveness request is answered CASCADED exactly when M > readinessCascade.
C8_AsStated ==
    /\ [](readinessFailed = failStreak)
    /\ [][\A r \in Tasks :
            LivenessStep(r) =>
                (task'[r].resp.body = "CASCADED" <=> failStreak > opts.readinessCascade)]_vars

\* C8 amended: after M failing evaluations in a row the counter is M, and a
\* liveness request is answered CASCADED exactly when readinessCascade > 0
\* and M > readinessCascade.
C8_CascadeAccumulation ==
    /\ [](readinessFailed = failStreak)
    /\ [][\A r \in Tasks :
            LivenessStep(r) =>
                (task'[r].resp.body = "CASCADED"
                    <=> (opts.readinessCascade > 0 /\ failStreak > opts.readinessCascade))]_vars

\* readinessCascade = 2: after the third failure in a row liveness answered
\* CASCADED
C8_Witness ==
    /\ opts.readinessCascade = 2
    /\ failStreak = 3
    /\ readinessFailed = 3
    /\ \E r \in Tasks :
          /\ task[r].pc = "done"
          /\ task[r].path = opts.livenessPath
          /\ task[r].resp.body = "CASCADED"

\* C9: after one or more passing evaluations in a row the counter is 0,
\* however many they were and whatever the counter was before.
C9_ResetIdempotent ==
    passStreak >= 1 => readinessFailed = 0

\* two passing evaluations in a row
C9_Witness ==
    /\ passStreak = 2
    /\ readinessFailed = 0

\* C10: a liveness request runs no check and changes neither the counter
\* nor the gate; the counter changes only in the counter update of a
\* readiness evaluation.
C10_LivenessFrame ==
    /\ [][\A r \in Tasks :
            LivenessStep(r) =>
                /\ readinessFailed' = readinessFailed
                /\ cc' = cc
                /\ task'[r].checked = 0
                /\ task'[r].acquired = 0]_vars
    /\ [][readinessFailed' # readinessFailed =>
            \E r \in Tasks :
                /\ task[r].path = opts.readinessPath
                /\ task[r].pc = "readiness_update"
                /\ task'[r].pc = "done"]_vars

\* a liveness request was answered while the counter was not 0 and a permit
\* was out
C10_Witness ==
    /\ readinessFailed > 0
    /\ ~ cc.isNil
    /\ cc.len < cc.cap
    /\ \E r \in Tasks :
          /\ task[r].pc = "done"
          /\ task[r].path = opts.livenessPath
          /\ task[r].path # opts.readinessPath
          /\ task[r].checked = 0

\* the five destinations in the order ServeHTTP is to try them
Priority == <<"readiness", "liveness", "metrics", "pprof", "app">>

\* whether a path qualifies for a destination
Matches(d, p) ==
    CASE d = "readiness" -> p = opts.readinessPath
      [] d = "liveness"  -> p = opts.livenessPath
      [] d = "metrics"   -> p = opts.metricsPath
      [] d = "pprof"     -> HasPrefix(p, DebugPrefix)
      [] d = "app"       -> TRUE

\* the first destination in priority order the path qualifies for
Resolved(p) ==
    LET first == CHOOSE i \in 1 .. 5 :
                    /\ Matches(Priority[i], p)
                    /\ \A j \in 1 .. (i - 1) : ~ Matches(Priority[j], p)
    IN  Priority[first]

\* the destination whose code an in-flight goroutine is executing
Executing(r) ==
    CASE task[r].pc \in { "readiness", "readiness_update" } -> "readiness"
      [] task[r].pc = "liveness" -> "liveness"
      [] task[r].pc = "metrics"  -> "metrics"
      [] task[r].pc = "pprof"    -> "pprof"
      [] OTHER                   -> "app"

\* C11: every request is served by the first of readiness, liveness, metrics,
\* diagnostic prefix, application route its path qualifies for, whatever the
\* three reserved paths are; only an application-route request receives a
\* permit or gets a Context.
C11_RoutingPriority ==
    \A r \in Tasks :
        /\ r \in InFlight => Executing(r) = Resolved(task[r].path)
        /\ (task[r].pc # "idle" /\ Resolved(task[r].path) # "app") =>
              /\ task[r].acquired = 0
              /\ task[r].holds = 0
              /\ task[r].created = 0
        /\ (task[r].pc = "done" /\ Resolved(task[r].path) = "readiness") => task[r].checked = 1
        /\ (task[r].pc = "done" /\ Resolved(task[r].path) # "readiness") => task[r].checked = 0
        /\ (task[r].pc = "done" /\ Resolved(task[r].path) = "metrics") =>
              task[r].resp.body = "metrics"

\* the readiness path carries the diagnostic prefix and a request to it was
\* answered by the readiness evaluation
C11_Witness ==
    /\ HasPrefix(opts.readinessPath, DebugPrefix)
    /\ opts.readinessPath # opts.livenessPath
    /\ \E r \in Tasks :
          /\ task[r].pc = "done"
          /\ task[r].path = opts.readinessPath
          /\ task[r].checked = 1
          /\ task[r].resp = [status |-> 200, body |-> "OK"]

\* C12: a request that got a Context has had Perform run on it by the time it
\* sends its permit back, whether the handler returned or panicked.
C12_PerformBeforeRelease ==
    \A r \in Tasks :
        /\ (task[r].created = 1 /\ task[r].released >= 1) => task[r].performed = 1
        /\ (task[r].created = 1 /\ task[r].pc = "release") => task[r].performed = 1
        /\ (task[r].created = 1 /\ task[r].performed = 0) => task[r].holds = task[r].acquired

\* a request whose handler returned has run Perform and then sent its permit
C12_Witness ==
    \E r \in Tasks :
        /\ task[r].pc = "done"
        /\ task[r].created = 1
        /\ task[r].resp.body = "handled"
        /\ task[r].performed = 1
        /\ task[r].released = 1

\* C13: Perform is called exactly once on every Context the factory produced,
\* after Inject and the handler, on every way out; a panic in Inject goes to
\* Perform without the handler being called.
C13_PerformExactlyOnce ==
    /\ [](\A r \in Tasks :
            /\ task[r].performed <= task[r].created
            /\ task[r].created <= 1
            /\ task[r].pc \in { "inject", "handler", "perform" } =>
                  (task[r].created = 1 /\ task[r].performed = 0)
            /\ (task[r].pc \in { "release", "done" } /\ task[r].created = 1) =>
                  task[r].performed = 1)
    /\ [][\A r \in Tasks :
            /\ (task'[r].pc = "handler" /\ task[r].pc # "handler") =>
                  (task[r].pc = "inject" /\ ~ task'[r].panicking)
            /\ (task[r].pc = "inject" /\ task'[r].panicking) => task'[r].pc = "perform"
            /\ task'[r].performed > task[r].performed => task[r].pc = "perform"]_vars

\* a request unwound with a panic before its handler wrote anything, and
\* Perform ran once on its Context
C13_Witness ==
    \E r \in Tasks :
        /\ task[r].pc = "done"
        /\ task[r].panicking
        /\ task[r].created = 1
        /\ task[r].resp = NoResponse
        /\ task[r].performed = 1

\* requests that are executing the route table
InRouteTable == { r \in Tasks : task[r].pc \in { "main", "inject", "handler", "perform" } }

\* C14: with concurrency = 0 there is no gate: no application-route request
\* waits at or receives from cc, each can always take its next step, and any
\* number of them can be in the route table at once.
C14_GateDisabled ==
    opts.concurrency = 0 =>
        /\ cc.isNil
        /\ \A r \in Tasks :
              /\ task[r].pc \notin { "gate", "release" }
              /\ task[r].acquired = 0
              /\ task[r].holds = 0
              /\ r \in InFlight => ENABLED AppStep(r)

\* concurrency = 0 and every goroutine is inside a handler at the same time
C14_Witness ==
    /\ opts.concurrency = 0
    /\ \A r \in Tasks : task[r].pc = "handler"

ReportLine(rep) ==
    rep.name \o ": " \o (IF rep.err = NilErr THEN "OK" ELSE rep.err[1])

\* lines joined by single newlines
RECURSIVE JoinLines(_)
JoinLines(reps) ==
    IF Len(reps) = 0 THEN ""
    ELSE IF Len(reps) = 1 THEN ReportLine(reps[1])
    ELSE ReportLine(reps[1]) \o "\n" \o JoinLines(Tail(reps))

\* C16: the readiness body is one line "<name>: OK" or "<name>: <error>" per
\* reported check, in report order, joined by single newlines with none at
\* the start or the end; it is the literal OK exactly when no check reported.
C16_ReadinessBody ==
    \A r \in Tasks :
        (task[r].pc = "done" /\ task[r].path = opts.readinessPath) =>
            LET body == task[r].resp.body
                reps == task[r].reports
            IN  /\ Len(reps) = Len(checks)
                /\ \A i \in DOMAIN reps : reps[i].name = checks[i]
                /\ body = (IF Len(reps) = 0 THEN "OK" ELSE JoinLines(reps))
                /\ (body = "OK") <=> (Len(reps) = 0)
                /\ SubSeq(body, 1, 1) # "\n"
                /\ SubSeq(body, Len(body), Len(body)) # "\n"

\* two checks, one passed and one failed: two lines and status 500
C16_Witness ==
    \E r \in Tasks :
        /\ task[r].pc = "done"
        /\ task[r].path = opts.readinessPath
        /\ task[r].resp = [status |-> 500, body |-> "db: OK\nmq: timeout"]

\* the counter update of a readiness evaluation
UpdateStep(r) ==
    /\ task[r].pc = "readiness_update"
    /\ task'[r].pc = "done"

\* C17: the counter is never negative and equals the number of failing
\* evaluations whose increment took effect since the last reset; it changes
\* only by the +1 of a failing evaluation or the store of 0 of an all-pass
\* one, whatever other evaluations are under way.
C17_AtomicCounter ==
    /\ [](readinessFailed >= 0 /\ readinessFailed = failStreak)
    /\ [][readinessFailed' \in { readinessFailed, readinessFailed + 1, 0 }]_vars
    /\ [][\A r \in Tasks :
            UpdateStep(r) =>
                readinessFailed' = IF SomeCheckFailed(r) THEN readinessFailed + 1 ELSE 0]_vars

\* two failing evaluations both ran their checks while the counter was 0 and
\* both incremented: the counter is 2
C17_Witness ==
    /\ readinessFailed = 2
    /\ \A r \in Tasks :
          /\ task[r].pc = "done"
          /\ task[r].path = opts.readinessPath
          /\ task[r].resp.status = 500
          /\ task[r].seen = 0

\* C18: a liveness request is answered CASCADED only if the last
\* readinessCascade + 1 updates of the counter were all by failing
\* evaluations, overlapping ones included; after the reset of an all-pass
\* evaluation, with no failing update since, it is answered 200 OK.
C18_CascadeNeedsConsecutiveFailures ==
    [][\A r \in Tasks :
         LivenessStep(r) =>
            /\ task'[r].resp.body = "CASCADED" =>
                  failStreak >= opts.readinessCascade + 1
            /\ passStreak >= 1 =>
                  task'[r].resp = [status |-> 200, body |-> "OK"]]_vars

\* readinessCascade = 1: two failing updates in a row, the second by an
\* evaluation that ran its checks after the first, then CASCADED
C18_Witness ==
    /\ opts.readinessCascade = 1
    /\ failStreak = 2
    /\ \E r, q \in Tasks :
          /\ task[r].pc = "done"
          /\ task[r].path = opts.livenessPath
          /\ task[r].resp = [status |-> 500, body |-> "CASCADED"]
          /\ task[q].pc = "done"
          /\ task[q].path = opts.readinessPath
          /\ task[q].resp.status = 500
          /\ task[q].seen = 1

\* C19: with a failing and an all-pass evaluation both between their checks
\* and their update, either may update first; the all-pass one stores 0
\* whatever the counter was, the failing one adds 1 to what it finds, so the
\* counter ends at 1 when the increment comes last and at 0 when the reset
\* comes last.
C19_LastWriteWins ==
    /\ [][\A r, q \in Tasks :
            ( /\ task[r].pc = "readiness_update" /\ SomeCheckFailed(r)
              /\ task[q].pc = "readiness_update" /\ ~ SomeCheckFailed(q) ) =>
                /\ UpdateStep(q) =>
                      (readinessFailed' = 0 /\ task'[r] = task[r])
                /\ UpdateStep(r) =>
                      (readinessFailed' = readinessFailed + 1 /\ task'[q] = task[q])
                /\ ENABLED ReadinessRespond(r)
                /\ ENABLED ReadinessRespond(q)]_vars
    /\ [][\A r \in Tasks :
            (UpdateStep(r) /\ passStreak >= 1) =>
                readinessFailed' = IF SomeCheckFailed(r) THEN 1 ELSE 0]_vars
    /\ [][\A r \in Tasks :
            (UpdateStep(r) /\ ~ SomeCheckFailed(r) /\ failStreak >= 1) =>
                (readinessFailed' = 0 /\ passStreak' = 1)]_vars

\* both evaluations ran their checks at counter 1; the failing one answered
\* 500 and its increment was overwritten by the reset
C19_Witness ==
    /\ readinessFailed = 0
    /\ passStreak = 1
    /\ \E r, q \in Tasks :
          /\ task[r].pc = "done" /\ task[q].pc = "done"
          /\ task[r].path = opts.readinessPath
          /\ task[q].path = opts.readinessPath
          /\ task[r].resp.status = 500
          /\ task[q].resp.status = 200
          /\ task[r].seen = 1
          /\ task[q].seen = 1

\* the other order: the increment came after the reset and the counter is 1
C19_IncrementLast ==
    /\ readinessFailed = 1
    /\ failStreak = 1
    /\ \E r, q \in Tasks :
          /\ task[r].pc = "done" /\ task[q].pc = "done"
          /\ task[r].path = opts.readinessPath
          /\ task[q].path = opts.readinessPath
          /\ task[r].resp.status = 500
          /\ task[q].resp.status = 200
          /\ task[r].seen = 1
          /\ task[q].seen = 1

====
